---- MODULE Spec2Model ----
(***************************************************************************)
(* Model of build123d's Mesher (src/src/build123d/mesher.py): the vertex   *)
(* welder and degenerate-triangle filter (_create_3mf_mesh), and the       *)
(* Mesher object with its Lib3MF model (add_shape, read, write).           *)
(*                                                                         *)
(* Coordinates are fixed point: an integer x stands for the length         *)
(* x / (Scale * 10^digits), so that round(x, digits) is a rounding of x    *)
(* to a multiple of Scale.                                                 *)
(***************************************************************************)
EXTENDS Integers, Sequences, FiniteSets, TLC

\* ------------------------------------------------------------------ bounds
\* sub-steps of the fixed-point representation per 10^-digits
Scale == 4
\* largest near-origin coordinate drawn, in sub-steps
MaxCoord == 3
\* longest raw vertex list drawn
MaxRaw == 3
\* longest raw triangle list drawn
MaxTris == 1
\* calls made in one run, the constructor apart
MaxCalls == 3
\* mesh objects one Mesher creates
MaxObjects == 3
\* leaf shapes handed to one add_shape call
MaxLeaves == 2
\* raw triangles in one call of _create_3mf_mesh when their order is studied
MaxOrderTris == 3

\* faces of a shape handed to _mesh_shape alone
MaxFaces == 3
\* triangles of a mesh handed to _get_shape alone
MaxMeshTris == 2
\* meta data entries added to one model
MaxMetaData == 1

\* ------------------------------------------------------- program constants
\* digits = -int(round(math.log(TOLERANCE, 10), 1)) with TOLERANCE = 1e-5
digits == 5

\* ------------------------------------------------------------ arithmetic
Abs(n) == IF n < 0 THEN -n ELSE n

RECURSIVE Pow10(_)
Pow10(e) == IF e = 0 THEN 1 ELSE 10 * Pow10(e - 1)

\* n / d rounded to the nearest integer, ties to the even one (Python round)
RoundHalfEven(n, d) ==
    LET q == n \div d
        r == n % d
    IN  IF 2 * r < d THEN q
        ELSE IF 2 * r > d THEN q + 1
        ELSE IF q % 2 = 0 THEN q ELSE q + 1

\* round(x, digits): the result counted in units of 10^-digits
RoundDigits(x) == RoundHalfEven(x, Scale)

\* ctypes.c_float of a rounded coordinate k * 10^-digits.  Below 128 length
\* units binary32 is finer than 10^-digits, so k survives (band 0); from 128
\* to 256 its step is 2^-16 and k becomes k * 2^16 / 10^5 rounded (band 1).
F32Band == 128 * Pow10(digits)

c_float(k) ==
    IF Abs(k) < F32Band
    THEN <<0, k>>
    ELSE <<1, (k \div 3125) * 2048 + RoundHalfEven((k % 3125) * 2048, 3125)>>

\* ------------------------------------------------------ _create_3mf_mesh
KeyDropsZ(v) == <<RoundDigits(v[1]), RoundDigits(v[2]), 0>>

\* key = (round(x, digits), round(y, digits), round(z, digits))
Key(v) == <<RoundDigits(v[1]), RoundDigits(v[2]), RoundDigits(v[3])>>

\* key in vertex_to_idx, the dict being the insertion-ordered list of its keys
KeyIn(keys, key) == \E k \in 1..Len(keys) : keys[k] = key

IdxZero(keys, key) == 0

\* vertex_to_idx[key]
IdxOf(keys, key) == (CHOOSE k \in 1..Len(keys) : keys[k] = key) - 1

\* the first pass, from raw vertex i on
RECURSIVE FirstPass(_, _, _, _)
FirstPass(verts, i, keys, table) ==
    IF i > Len(verts)
    THEN [vertex_to_idx |-> keys, vert_table |-> table]
    ELSE LET key == Key(verts[i])
             keys2 == IF KeyIn(keys, key) THEN keys ELSE Append(keys, key)
         IN  FirstPass(verts, i + 1, keys2, Append(table, IdxOf(keys2, key)))

PositionSwapped(v) == <<c_float(v[2]), c_float(v[1]), c_float(v[3])>>

\* Lib3MF.Position((ctypes.c_float * 3)(*v))
Position(v) == <<c_float(v[1]), c_float(v[2]), c_float(v[3])>>

\* vertices_3mf = [Position(v) for v in vertex_to_idx.keys()]
Vertices3mf(keys) == [k \in 1..Len(keys) |-> Position(keys[k])]

DistinctLoose(a, b, c) == a /= b /\ b /= c

\* mapped_a != mapped_b and mapped_b != mapped_c and mapped_c != mapped_a
Distinct3(a, b, c) == a /= b /\ b /= c /\ c /= a

Unmapped(table, a) == a

\* vert_table[a] for a raw (0-based) index a
Mapped(table, a) == table[a + 1]

\* the triangle loop, from raw triangle t on
RECURSIVE Triangles3mf(_, _, _, _)
Triangles3mf(tris, t, table, out) ==
    IF t > Len(tris)
    THEN out
    ELSE LET a == Mapped(table, tris[t][1])
             b == Mapped(table, tris[t][2])
             c == Mapped(table, tris[t][3])
         IN  Triangles3mf(tris, t + 1, table,
                 IF Distinct3(a, b, c) THEN Append(out, <<a, b, c>>) ELSE out)

\* Mesher._create_3mf_mesh(ocp_mesh_vertices, triangles)
create_3mf_mesh(verts, tris) ==
    LET pass == FirstPass(verts, 1, <<>>, <<>>)
    IN  [vert_table    |-> pass.vert_table,
         vertices_3mf  |-> Vertices3mf(pass.vertex_to_idx),
         triangles_3mf |-> Triangles3mf(tris, 1, pass.vert_table, <<>>)]

\* ---------------------------------------------------------- Mesher tables
\* build123d.build_enums.Unit
Unit == {"MC", "MM", "CM", "IN", "FT", "M"}

\* Mesher._map_b3d_to_3mf_unit
map_b3d_to_3mf_unit ==
    [u \in Unit |->
        CASE u = "MC" -> "MicroMeter"
          [] u = "MM" -> "MilliMeter"
          [] u = "CM" -> "CentiMeter"
          [] u = "IN" -> "Inch"
          [] u = "FT" -> "Foot"
          [] u = "M"  -> "Meter"]

\* Lib3MF.ModelUnit
ModelUnit ==
    {"MicroMeter", "MilliMeter", "CentiMeter", "Inch", "Foot", "Meter"}

InvertFirst(d) ==
    [v \in {d[k] : k \in DOMAIN d} |-> CHOOSE k \in DOMAIN d : TRUE]

\* {v: k for k, v in d.items()}
InvertDict(d) ==
    [v \in {d[k] : k \in DOMAIN d} |-> CHOOSE k \in DOMAIN d : d[k] = v]

\* Mesher._map_3mf_to_b3d_unit
map_3mf_to_b3d_unit == InvertDict(map_b3d_to_3mf_unit)

\* build123d.build_enums.MeshType
MeshType == {"OTHER", "MODEL", "SUPPORT", "SOLIDSUPPORT"}

\* Lib3MF.ObjectType
ObjectType == {"Other", "Model", "Support", "SolidSupport"}

\* Mesher._map_b3d_mesh_type_3mf
map_b3d_mesh_type_3mf ==
    [t \in MeshType |->
        CASE t = "OTHER"        -> "Other"
          [] t = "MODEL"        -> "Model"
          [] t = "SUPPORT"      -> "Support"
          [] t = "SOLIDSUPPORT" -> "SolidSupport"]

\* Mesher._map_3mf_to_b3d_mesh_type
map_3mf_to_b3d_mesh_type == InvertDict(map_b3d_mesh_type_3mf)

\* the unit attribute of a 3MF model file, as the writer spells a ModelUnit
\* and as the reader takes it back
UnitToXml(mu) ==
    CASE mu = "MicroMeter" -> "micron"
      [] mu = "MilliMeter" -> "millimeter"
      [] mu = "CentiMeter" -> "centimeter"
      [] mu = "Inch"       -> "inch"
      [] mu = "Foot"       -> "foot"
      [] mu = "Meter"      -> "meter"

XmlToUnit(x) ==
    CASE x = "micron"     -> "MicroMeter"
      [] x = "millimeter" -> "MilliMeter"
      [] x = "centimeter" -> "CentiMeter"
      [] x = "inch"       -> "Inch"
      [] x = "foot"       -> "Foot"
      [] x = "meter"      -> "Meter"

\* ------------------------------------------------------------ file names
\* a path is the sequence of its characters
RECURSIVE RFind(_, _)
\* p.rfind(ch): the last position of ch in p, 0 when there is none
RFind(p, ch) ==
    IF Len(p) = 0 THEN 0
    ELSE IF p[Len(p)] = ch THEN Len(p)
    ELSE RFind(SubSeq(p, 1, Len(p) - 1), ch)

\* os.path.splitext(p)[1]: from the last dot of the last path component on,
\* unless that component has only dots before it
splitext(p) ==
    LET sepIndex == RFind(p, "/")
        dotIndex == RFind(p, ".")
    IN  IF /\ dotIndex > sepIndex
           /\ \E f \in (sepIndex + 1)..(dotIndex - 1) : p[f] /= "."
        THEN SubSeq(p, dotIndex, Len(p))
        ELSE <<>>

AnyExtension(ext) == TRUE

\* input_file_extension in [".3mf", ".stl"]
KnownExtension(ext) ==
    ext \in {<<".", "3", "m", "f">>, <<".", "s", "t", "l">>}

\* input_file_extension[1:], the format asked of QueryReader / QueryWriter
FormatOf(ext) == IF ext = <<".", "3", "m", "f">> THEN "3mf" ELSE "stl"

\* ------------------------------------------------------------ the inputs
\* a rounded coordinate in the band where binary32 is coarser than 10^-digits
FarCell == 200 * Pow10(digits)

\* raw points: sub-step positions along x near the origin, one point off the
\* x axis in y and in z, and two neighbouring grid points 200 units out
Points ==
    {<<x, 0, 0>> : x \in 0..MaxCoord}
    \cup {<<0, MaxCoord, 0>>, <<0, 0, MaxCoord>>}
    \cup {<<(FarCell + d) * Scale, 0, 0>> : d \in 1..2}

SeqsUpTo(S, n) == UNION {[1..m -> S] : m \in 0..n}

\* raw triangles over n raw vertices: three different raw indices, in either
\* winding
RawTriangles(n) ==
    {t \in (0..(n - 1)) \X (0..(n - 1)) \X (0..(n - 1)) :
        t[1] < t[2] /\ t[1] < t[3] /\ t[2] /= t[3]}

\* ------------------------------------------------------ the Lib3MF model
\* GetObjectLevelProperty of a mesh object that has no material bound
NoProperty == [enabled |-> FALSE, group |-> 0, index |-> 0]

\* the mesh object model.AddMeshObject() returns: no geometry, type Model
NewMeshObject ==
    [vertices |-> <<>>, triangles |-> <<>>, type |-> "Model", name |-> "",
     part_number |-> "", uuid |-> "", prop |-> NoProperty]

CreateModelNoUnit(mu) ==
    [unit |-> "MilliMeter", mesh_objects |-> <<>>, build_items |-> <<>>,
     components |-> <<>>, materials |-> <<>>, meta_data |-> <<>>, nres |-> 0]

\* wrapper.CreateModel() followed by SetUnit(mu).  Mesh objects, build items
\* and components name mesh objects by their handle (position in the heap);
\* nres is the last resource id given out
CreateModel(mu) ==
    [unit |-> mu, mesh_objects |-> <<>>, build_items |-> <<>>,
     components |-> <<>>, materials |-> <<>>, meta_data |-> <<>>, nres |-> 0]

\* position of handle h in the sequence of handles hs (0: not there)
RECURSIVE PosOf(_, _)
PosOf(hs, h) ==
    IF Len(hs) = 0 THEN 0
    ELSE IF hs[Len(hs)] = h THEN Len(hs)
    ELSE PosOf(SubSeq(hs, 1, Len(hs) - 1), h)

NoFile == [format |-> "none"]

\* writer.WriteToFile for the 3mf format: the unit, every mesh object, the
\* build items and components (by position of their object), the materials
Write3mf(m, hp) ==
    [format      |-> "3mf",
     unit        |-> UnitToXml(m.unit),
     objects     |-> [k \in 1..Len(m.mesh_objects) |-> hp[m.mesh_objects[k]]],
     build_items |-> [k \in 1..Len(m.build_items) |->
                         PosOf(m.mesh_objects, m.build_items[k])],
     components  |-> [k \in 1..Len(m.components) |->
                         PosOf(m.mesh_objects, m.components[k])],
     materials   |-> m.materials,
     meta_data   |-> m.meta_data,
     nres        |-> m.nres]

\* the triangles of the build items as one soup, each object's indices
\* shifted behind the vertices of the objects before it
RECURSIVE Soup(_, _, _, _)
Soup(hs, hp, verts, tris) ==
    IF Len(hs) = 0 THEN [vertices |-> verts, triangles |-> tris]
    ELSE LET o == hp[Head(hs)]
             shifted == [t \in 1..Len(o.triangles) |->
                            [c \in 1..3 |-> o.triangles[t][c] + Len(verts)]]
         IN  Soup(Tail(hs), hp, verts \o o.vertices, tris \o shifted)

\* writer.WriteToFile for the stl format: triangles only; no unit, no names,
\* no materials
WriteStl(m, hp) ==
    LET soup == Soup(m.build_items, hp, <<>>, <<>>)
    IN  [format |-> "stl", vertices |-> soup.vertices,
         triangles |-> soup.triangles]

\* reader.ReadFromFile of a 3mf file: the model's content is replaced by the
\* file's; the objects read are new objects, put on the heap from handle
\* base + 1 on
Read3mf(f, base) ==
    [unit         |-> XmlToUnit(f.unit),
     mesh_objects |-> [k \in 1..Len(f.objects) |-> base + k],
     build_items  |-> [k \in 1..Len(f.build_items) |-> base + f.build_items[k]],
     components   |-> [k \in 1..Len(f.components) |->
                          IF f.components[k] = 0 THEN 0
                          ELSE base + f.components[k]],
     materials    |-> f.materials,
     meta_data    |-> f.meta_data,
     nres         |-> f.nres]

\* reader.ReadFromFile of an stl file: the model's content is replaced by one
\* mesh object holding the file's triangles and a build item for it; the
\* unit of the model stays as it was
ReadStl(f, base, mu) ==
    [unit |-> mu, mesh_objects |-> <<base + 1>>, build_items |-> <<base + 1>>,
     components |-> <<>>, materials |-> <<>>, meta_data |-> <<>>, nres |-> 1]

\* ------------------------------------------------------------ the colours
\* a colour channel c in [0, 1] is the integer 510 * c;
\* wrapper.FloatRGBAToColor keeps 8 bits per channel
ToBlack(c) == <<0, 0, 0, 0>>

FloatRGBAToColor(c) == [ch \in 1..4 |-> (c[ch] + 1) \div 2]

\* wrapper.ColorToFloatRGBA
ColorToFloatRGBA(k) == [ch \in 1..4 |-> 2 * k[ch]]

\* ---------------------------------------------------------------- inputs
\* a face of a leaf shape as the tessellation engine leaves it: its nodes,
\* its triangles (1-based node numbers) and whether it is reversed
Face(nodes, tris, reversed) ==
    [nodes |-> nodes, tris |-> tris, reversed |-> reversed,
     wrapped |-> TRUE, triangulated |-> TRUE]

\* a face object that holds no shape (facet.wrapped is None), with what
\* BRep_Tool.Triangulation_s yields when handed it: a triangulation with
\* these nodes and triangles, or (triangulated FALSE) an exception
NullFace(nodes, tris, triangulated) ==
    [nodes |-> nodes, tris |-> tris, reversed |-> FALSE,
     wrapped |-> FALSE, triangulated |-> triangulated]

Origin == <<0, 0, 0>>
NearOrigin == <<1, 0, 0>>
AlsoNear == <<0, 1, 0>>
OnX == <<MaxCoord, 0, 0>>
OnY == <<0, MaxCoord, 0>>
OnZ == <<0, 0, MaxCoord>>

\* a shape without faces (an edge, a wire)
NoFaces == <<>>
\* a face smaller than one grid cell
SpeckFaces == <<Face(<<Origin, NearOrigin, AlsoNear>>, <<<<1, 2, 3>>>>, FALSE)>>
\* one triangular face
TriFaces == <<Face(<<Origin, OnX, OnY>>, <<<<1, 2, 3>>>>, FALSE)>>
\* two triangular faces along a common edge, the second one reversed
FoldFaces ==
    <<Face(<<Origin, OnX, OnY>>, <<<<1, 2, 3>>>>, FALSE),
      Face(<<Origin, OnX, OnZ>>, <<<<1, 2, 3>>>>, TRUE)>>

Red == <<510, 0, 0, 510>>
Grey == <<255, 255, 255, 510>>
\* b3d_shape.color is None
NoColor == <<>>

Leaf(faces, label, color) == [faces |-> faces, label |-> label, color |-> color]

\* the leaf shapes handed to add_shape
LeafShapes ==
    {Leaf(NoFaces, "", NoColor),
     Leaf(SpeckFaces, "speck", NoColor),
     Leaf(TriFaces, "tri", Red),
     Leaf(FoldFaces, "", Grey)}

\* a Compound: its direct children (shapes, compounds among them), its own
\* label and colour
Compound(children, label, color) ==
    [children |-> children, label |-> label, color |-> color]

\* a list of shapes handed to add_shape
ShapeList(items) == [items |-> items]

\* isinstance(shape, Compound)
IsCompound(shape) == "children" \in DOMAIN shape

\* isinstance(shape, Iterable): a list, or a Compound, which iterates over
\* its direct children
IsIterable(shape) == "items" \in DOMAIN shape \/ IsCompound(shape)

\* list(shape) of an iterable
Iterate(shape) == IF IsCompound(shape) THEN shape.children ELSE shape.items

\* the four triangular faces of a tetrahedron, each with its own nodes,
\* wound so that the normals point outwards
TetraFaces ==
    <<Face(<<Origin, OnY, OnX>>, <<<<1, 2, 3>>>>, FALSE),
      Face(<<Origin, OnX, OnZ>>, <<<<1, 2, 3>>>>, FALSE),
      Face(<<Origin, OnZ, OnY>>, <<<<1, 2, 3>>>>, FALSE),
      Face(<<OnX, OnY, OnZ>>, <<<<1, 2, 3>>>>, FALSE)>>
\* the same without its last face
OpenFaces == SubSeq(TetraFaces, 1, 3)

\* a closed solid and an open shell
SolidShapes ==
    {Leaf(TetraFaces, "tetra", Red), Leaf(OpenFaces, "open", NoColor)}

TriLeaf == Leaf(TriFaces, "tri", Red)
FoldLeaf == Leaf(FoldFaces, "", Grey)
\* sound shapes: with a colour that 8 bits per channel hold, with one that
\* they do not, and without colour
PlainShapes == {TriLeaf, FoldLeaf, Leaf(TriFaces, "plain", NoColor)}

\* a Compound of two leaves
Pair == Compound(<<TriLeaf, FoldLeaf>>, "pair", NoColor)
\* a Compound whose only child is a Compound
Nest == Compound(<<Pair>>, "nest", NoColor)

\* what add_shape is handed as `shape`: a shape alone or a list of shapes
ShapeArgs ==
    {TriLeaf, Leaf(NoFaces, "", NoColor), Pair, Nest,
     Compound(<<Nest>>, "deep", NoColor),
     Compound(<<TriLeaf, Compound(<<FoldLeaf>>, "in", NoColor)>>, "mix", NoColor),
     ShapeList(<<TriLeaf>>), ShapeList(<<TriLeaf, FoldLeaf>>),
     ShapeList(<<Pair>>), ShapeList(<<Nest>>),
     ShapeList(<<FoldLeaf, Compound(<<TriLeaf>>, "one", NoColor)>>)}

\* the first loop of add_shape from input k on: a Compound among the inputs
\* is replaced by its direct children, any other input is kept
RECURSIVE ExpandFrom(_, _, _)
ExpandFrom(inputs, k, shapes) ==
    IF k > Len(inputs) THEN shapes
    ELSE LET input_shape == inputs[k]
         IN  ExpandFrom(inputs, k + 1,
                        IF IsCompound(input_shape)
                        THEN shapes \o Iterate(input_shape)
                        ELSE Append(shapes, input_shape))

\* the list `shapes` that add_shape builds from its argument
Expand(shape) ==
    ExpandFrom(IF IsIterable(shape) THEN Iterate(shape) ELSE <<shape>>, 1, <<>>)

\* shape.faces(): the faces of a leaf; of a Compound, the faces of all that
\* is in it
RECURSIVE Faces(_)
RECURSIVE FacesOfAll(_)
FacesOfAll(shapes) ==
    IF Len(shapes) = 0 THEN <<>>
    ELSE Faces(Head(shapes)) \o FacesOfAll(Tail(shapes))

Faces(shape) ==
    IF IsCompound(shape) THEN FacesOfAll(shape.children) ELSE shape.faces

\* an element of `shapes` as the loop body sees it: its faces, label, color
AsMeshed(shape) == Leaf(Faces(shape), shape.label, shape.color)

\* every shape the loop body of add_shape is handed
MeshedShapes ==
    LeafShapes \cup SolidShapes \cup PlainShapes \cup
    UNION {{AsMeshed(Expand(a)[k]) : k \in 1..Len(Expand(a))} : a \in ShapeArgs}

\* the other arguments of add_shape
Options ==
    {[mesh_type |-> "SUPPORT", part_number |-> "pn", uuid_value |-> ""]}

\* what Lib3MF finds when asked IsValid and IsManifoldAndOriented
Checks == {"invalid", "open", "closed"}

\* the units Meshers are made with
UnitsUsed == {"MM", "IN"}

\* the file names handed to read and write
Paths ==
    {<<"a", ".", "3", "m", "f">>,
     <<"b", ".", "s", "t", "l">>,
     <<"c", ".", "3", "M", "F">>,
     <<".", "3", "m", "f">>,
     <<"d", ".", "s", "t", "l", "/", "e">>}

VARIABLES
    ocp_mesh_vertices,  \* _create_3mf_mesh: the raw vertex list passed in
    triangles,          \* _create_3mf_mesh: the raw triangle list passed in
    mesh_pc,            \* _create_3mf_mesh: "call" before, "return" after
    vert_table,         \* raw index -> canonical index
    vertices_3mf,       \* returned vertex list
    triangles_3mf,      \* returned triangle list
    unit,               \* Mesher.unit
    model,              \* Mesher.model, the Lib3MF model
    meshes,             \* Mesher.meshes: handles of mesh objects
    heap,               \* every mesh object created so far, by handle
    files,              \* the file system: path -> content
    last,               \* the last call: what was asked and how it ended
    calls,              \* number of calls made
    wrote_unit,         \* history: the unit of the Mesher that wrote each file
    made_unit,          \* history: the unit the Mesher was constructed with
    tessellated         \* the caller's shapes that hold a cached triangulation

mesh_vars == <<ocp_mesh_vertices, triangles, mesh_pc, vert_table,
               vertices_3mf, triangles_3mf>>

mesher_vars == <<unit, model, meshes, heap, files, last, calls, wrote_unit,
                 made_unit, tessellated>>

vars == <<mesh_vars, mesher_vars>>

\* ---------------------------------------------------- _create_3mf_mesh alone
MesherIdle ==
    /\ unit = "MM"
    /\ model = CreateModel(map_b3d_to_3mf_unit["MM"])
    /\ meshes = <<>>
    /\ heap = <<>>
    /\ files = [p \in Paths |-> NoFile]
    /\ last = [op |-> "none"]
    /\ calls = 0
    /\ wrote_unit = [p \in Paths |-> "none"]
    /\ made_unit = unit
    /\ tessellated = {}

MeshInit ==
    /\ ocp_mesh_vertices \in SeqsUpTo(Points, MaxRaw)
    /\ triangles \in SeqsUpTo(RawTriangles(Len(ocp_mesh_vertices)), MaxTris)
    /\ mesh_pc = "call"
    /\ vert_table = <<>>
    /\ vertices_3mf = <<>>
    /\ triangles_3mf = <<>>
    /\ MesherIdle

\* one call of _create_3mf_mesh on the drawn input
CreateMesh ==
    /\ mesh_pc = "call"
    /\ LET r == create_3mf_mesh(ocp_mesh_vertices, triangles)
       IN  /\ vert_table' = r.vert_table
           /\ vertices_3mf' = r.vertices_3mf
           /\ triangles_3mf' = r.triangles_3mf
    /\ mesh_pc' = "return"
    /\ UNCHANGED <<ocp_mesh_vertices, triangles>>
    /\ UNCHANGED mesher_vars

MeshNext == CreateMesh

SpecMesh == MeshInit /\ [][MeshNext]_vars

\* ------------------------------------ _create_3mf_mesh on longer triangle lists
\* raw vertex lists of four points: the first two welded, none welded, the
\* first three welded
WeldLists ==
    {<<Origin, NearOrigin, OnX, OnY>>,
     <<Origin, OnX, OnY, OnZ>>,
     <<Origin, NearOrigin, AlsoNear, OnX>>}

FilterInit ==
    /\ ocp_mesh_vertices \in WeldLists
    /\ triangles \in SeqsUpTo(RawTriangles(Len(ocp_mesh_vertices)), MaxOrderTris)
    /\ mesh_pc = "call"
    /\ vert_table = <<>>
    /\ vertices_3mf = <<>>
    /\ triangles_3mf = <<>>
    /\ MesherIdle

SpecFilter == FilterInit /\ [][MeshNext]_vars

\* ------------------------------------------------------------- the Mesher
MeshIdle ==
    /\ ocp_mesh_vertices = <<>>
    /\ triangles = <<>>
    /\ mesh_pc = "idle"
    /\ vert_table = <<>>
    /\ vertices_3mf = <<>>
    /\ triangles_3mf = <<>>

\* what a call leaves in `last`
Call(op, arg, raised, returned, outcomes, warnings) ==
    [op |-> op, arg |-> arg, raised |-> raised, returned |-> returned,
     outcomes |-> outcomes, warnings |-> warnings, stages |-> <<>>]

\* Mesher.__init__(unit): a new Mesher; the files stay
Construct(u) ==
    /\ calls' = calls
    /\ unit' = u
    /\ made_unit' = u
    /\ model' = CreateModel(map_b3d_to_3mf_unit[u])
    /\ meshes' = <<>>
    /\ heap' = <<>>
    /\ last' = Call("init", u, "none", <<>>, <<>>, <<>>)
    /\ UNCHANGED <<files, wrote_unit, tessellated>>
    /\ UNCHANGED mesh_vars

Init ==
    /\ MeshIdle
    /\ \E u \in UnitsUsed :
          /\ unit = u
          /\ model = CreateModel(map_b3d_to_3mf_unit[u])
          /\ last = Call("init", u, "none", <<>>, <<>>, <<>>)
    /\ meshes = <<>>
    /\ heap = <<>>
    /\ files = [p \in Paths |-> NoFile]
    /\ calls = 0
    /\ wrote_unit = [p \in Paths |-> "none"]
    /\ made_unit = unit
    /\ tessellated = {}

\* Mesher.mesh_count: self.model.GetMeshObjects().Count()
mesh_count(m) == Len(m.mesh_objects)

\* Mesher.triangle_counts
triangle_counts(ms, hp) == [k \in 1..Len(ms) |-> Len(hp[ms[k]].triangles)]

\* Mesher.vertex_counts
vertex_counts(ms, hp) == [k \in 1..Len(ms) |-> Len(hp[ms[k]].vertices)]

\* Mesher.get_mesh_properties(): name, part number, type and uuid of every
\* entry of self.meshes
get_mesh_properties(ms, hp) ==
    [k \in 1..Len(ms) |->
        [name        |-> hp[ms[k]].name,
         part_number |-> hp[ms[k]].part_number,
         type        |-> map_3mf_to_b3d_mesh_type[hp[ms[k]].type],
         uuid        |-> hp[ms[k]].uuid]]

\* Mesher.write(file_name)
Write(path) ==
    /\ calls' = calls + 1
    /\ LET output_file_extension == splitext(path)
       IN  IF ~KnownExtension(output_file_extension)
           THEN /\ last' = Call("write", path, "ValueError", <<>>, <<>>, <<>>)
                /\ UNCHANGED <<files, wrote_unit>>
           ELSE /\ files' = [files EXCEPT ![path] =
                       IF FormatOf(output_file_extension) = "3mf"
                       THEN Write3mf(model, heap)
                       ELSE WriteStl(model, heap)]
                /\ wrote_unit' = [wrote_unit EXCEPT ![path] = unit]
                /\ last' = Call("write", path, "none", <<>>, <<>>, <<>>)
    /\ UNCHANGED <<unit, model, meshes, heap, made_unit, tessellated>>
    /\ UNCHANGED mesh_vars

UnitKept(self_unit, model_unit) == self_unit

\* self.unit = Mesher._map_3mf_to_b3d_unit[self.model.GetUnit()]
UnitOfModel(self_unit, model_unit) == map_3mf_to_b3d_unit[model_unit]

\* the objects a file puts on the heap
ObjectsOf(f) ==
    IF f.format = "3mf" THEN f.objects
    ELSE <<[NewMeshObject EXCEPT !.vertices = f.vertices,
                                  !.triangles = f.triangles]>>

EnabledAlways(prop) == TRUE

\* base_mat_id, color_index, material_enabled = mesh.GetObjectLevelProperty();
\* if material_enabled:
material_enabled(prop) == prop.enabled

\* base_mat.GetDisplayColor(color_index) of group base_mat_id; <<>> when the
\* model has no such material
DisplayColor(m, base_mat_id, color_index) ==
    LET groups == {g \in 1..Len(m.materials) : m.materials[g].id = base_mat_id}
    IN  IF groups = {} THEN <<>>
        ELSE LET mats == m.materials[CHOOSE g \in groups : TRUE].colors
             IN  IF color_index \in 1..Len(mats) THEN mats[color_index] ELSE <<>>

\* the difference of two binary32 coordinates, counted in the step of their
\* band; coordinates of different bands are 128 units or more apart
Minus(e1, e2) ==
    IF e1[1] = e2[1] THEN e1[2] - e2[2]
    ELSE IF e1[1] > e2[1] THEN F32Band ELSE -F32Band

ZeroAreaNever(a, b, c) == FALSE

\* facet_properties.Mass() of the planar face on a, b, c is 0: the cross
\* product of b - a and c - a vanishes
ZeroArea(a, b, c) ==
    LET u == [axis \in 1..3 |-> Minus(b[axis], a[axis])]
        v == [axis \in 1..3 |-> Minus(c[axis], a[axis])]
    IN  /\ u[2] * v[3] - u[3] * v[2] = 0
        /\ u[3] * v[1] - u[1] * v[3] = 0
        /\ u[1] * v[2] - u[2] * v[1] = 0

\* the corners of triangle tri as points: gp_pnts[tri_indices[i]]
Corners(gp_pnts, tri) == [i \in 1..3 |-> gp_pnts[tri[i] + 1]]

\* the loop over the triangles in _get_shape, from triangle i on: the facets
\* handed to the sewing
RECURSIVE SewnFacets(_, _, _, _)
SewnFacets(gp_pnts, tris, i, facets) ==
    IF i > Len(tris) THEN facets
    ELSE LET ocp_vertices == Corners(gp_pnts, tris[i])
         IN  SewnFacets(gp_pnts, tris, i + 1,
                 IF ~ZeroArea(ocp_vertices[1], ocp_vertices[2], ocp_vertices[3])
                 THEN Append(facets, ocp_vertices)
                 ELSE facets)

\* the edges of a facet, each the set of its two end points; sewing joins
\* the edges of different facets that have the same end points
EdgesOf(facet) ==
    {{facet[1], facet[2]}, {facet[2], facet[3]}, {facet[3], facet[1]}}

ManifoldAlways(facets) == TRUE

\* Shell(occ_sewed_shape).is_manifold: there is a sewn shape and every edge
\* of it is shared by exactly two faces
is_manifold(facets) ==
    /\ Len(facets) > 0
    /\ \A f \in 1..Len(facets) : \A edge \in EdgesOf(facets[f]) :
          Cardinality({g \in 1..Len(facets) : edge \in EdgesOf(facets[g])}) = 2

\* Mesher._get_shape(mesh_3mf): the facets sewn, and a Solid when they are
\* manifold, the Shell otherwise
get_shape(mesh_3mf) ==
    LET facets == SewnFacets(mesh_3mf.vertices, mesh_3mf.triangles, 1, <<>>)
    IN  [kind   |-> IF is_manifold(facets) THEN "Solid" ELSE "Shell",
         facets |-> facets]

\* one round of the loop over self.meshes in read: the shape of mesh h, with
\* its label and, when a material is enabled, its colour
ShapeOf(m, hp, h) ==
    LET prop == hp[h].prop
        shape == get_shape(hp[h])
    IN  [mesh  |-> h,
         kind  |-> shape.kind,
         facets |-> shape.facets,
         label |-> hp[h].name,
         color |-> IF material_enabled(prop)
                   THEN ColorToFloatRGBA(DisplayColor(m, prop.group, prop.index))
                   ELSE <<>>]

\* a material is enabled on mesh h that the model does not have
LookupFails(m, hp, h) ==
    /\ material_enabled(hp[h].prop)
    /\ DisplayColor(m, hp[h].prop.group, hp[h].prop.index) = <<>>

\* the material lookups that the loop over ms makes, from mesh k on, as far
\* as mesh `stop`: one for each mesh with a material enabled
RECURSIVE LookupsMade(_, _, _, _)
LookupsMade(ms, hp, k, stop) ==
    IF k > Len(ms) \/ k > stop THEN <<>>
    ELSE (IF material_enabled(hp[ms[k]].prop)
          THEN <<<<"GetBaseMaterialGroupByID", k>>>> ELSE <<>>)
         \o LookupsMade(ms, hp, k + 1, stop)

\* the least element of a set of numbers
Min(S) == CHOOSE x \in S : \A y \in S : x <= y

Wrapped(exception) == "OSError"

\* an exception raised by Lib3MF inside read: read has no handler, so it
\* reaches the caller as it is
Propagate(exception) == exception

\* Mesher.read(file_name); the outcomes are the calls of reader.ReadFromFile
\* (with their number) and the material lookups (with the place of their
\* mesh in self.meshes) made
Read(path) ==
    /\ calls' = calls + 1
    /\ LET input_file_extension == splitext(path)
       IN  IF ~KnownExtension(input_file_extension)
           THEN /\ last' = Call("read", path, "ValueError", <<>>, <<>>, <<>>)
                /\ UNCHANGED <<unit, model, meshes, heap>>
           ELSE IF files[path] = NoFile
           THEN /\ last' = Call("read", path, Propagate("Lib3MFException"),
                                <<>>, <<<<"ReadFromFile", 1>>>>, <<>>)
                /\ UNCHANGED <<unit, model, meshes, heap>>
           ELSE LET f == files[path]
                    base == Len(heap)
                    m2 == IF f.format = "3mf" THEN Read3mf(f, base)
                          ELSE ReadStl(f, base, model.unit)
                    hp2 == heap \o ObjectsOf(f)
                    meshes2 == meshes \o m2.mesh_objects
                    failing == {k \in 1..Len(meshes2) :
                                   LookupFails(m2, hp2, meshes2[k])}
                IN  /\ model' = m2
                    /\ heap' = hp2
                    /\ unit' = UnitOfModel(unit, m2.unit)
                    /\ meshes' = meshes2
                    /\ last' =
                         IF failing = {}
                         THEN Call("read", path, "none",
                                  [k \in 1..Len(meshes2) |->
                                      ShapeOf(m2, hp2, meshes2[k])],
                                  <<<<"ReadFromFile", 1>>>>
                                      \o LookupsMade(meshes2, hp2, 1, Len(meshes2)),
                                  <<>>)
                         ELSE Call("read", path, Propagate("Lib3MFException"),
                                  <<>>,
                                  <<<<"ReadFromFile", 1>>>>
                                      \o LookupsMade(meshes2, hp2, 1, Min(failing)),
                                  <<>>)
    /\ UNCHANGED <<files, wrote_unit, made_unit, tessellated>>
    /\ UNCHANGED mesh_vars

OrderKept(facet_reversed) == <<1, 2, 3>>

\* order = [1, 3, 2] if facet_reversed else [1, 2, 3]
Order(facet_reversed) == IF facet_reversed THEN <<1, 3, 2>> ELSE <<1, 2, 3>>

\* Mesher._mesh_shape, from face k on: the nodes of every face in face order
\* and, of every face that holds a shape, the triangles shifted by offset;
\* a face that holds none is passed over once its nodes are stored, and the
\* offset stays.  An exception of Triangulation_s ends the call
RECURSIVE mesh_shape(_, _, _, _, _)
mesh_shape(faces, k, ocp_vertices, tris, offset) ==
    IF k > Len(faces)
    THEN [vertices |-> ocp_vertices, triangles |-> tris, raised |-> "none"]
    ELSE LET facet == faces[k]
         IN  IF ~facet.triangulated
             THEN [vertices |-> ocp_vertices, triangles |-> tris,
                   raised |-> "TypeError"]
             ELSE
             LET node_count == Len(facet.nodes)
                 stored == ocp_vertices \o facet.nodes
                 order == Order(facet.reversed)
                 new == [t \in 1..Len(facet.tris) |->
                            [i \in 1..3 |->
                                facet.tris[t][order[i]] + offset - 1]]
             IN  IF ~facet.wrapped
                 THEN mesh_shape(faces, k + 1, stored, tris, offset)
                 ELSE mesh_shape(faces, k + 1, stored, tris \o new,
                                 offset + node_count)

SkipNever(ocp_vertices, tris) == FALSE

\* a shape object: the shape it holds and who holds the object
CallerShape(b3d_shape) == [owner |-> "caller", shape |-> b3d_shape]

SameObject(object) == object

\* copy_module.deepcopy(b3d_shape): a new object that holds the same shape
\* and shares nothing with the caller's
deepcopy(object) == [object EXCEPT !.owner = "add_shape"]

\* BRepMesh_IncrementalMesh(theShape=ocp_mesh.wrapped, ...) in _mesh_shape:
\* the triangulation is stored on the object handed in; cached is the set
\* of the caller's shapes that hold one
IncrementalMesh(cached, ocp_mesh) ==
    IF ocp_mesh.owner = "caller" THEN cached \cup {ocp_mesh.shape} ELSE cached

\* len(ocp_mesh_vertices) < 3 or not triangles
SkipTest(ocp_vertices, tris) == Len(ocp_vertices) < 3 \/ Len(tris) = 0

\* Mesher._mesh_shape(copy.deepcopy(b3d_shape), ...) for each leaf shape
\* handed in, worked out once
Tessellation ==
    [b3d_shape \in MeshedShapes |-> mesh_shape(b3d_shape.faces, 1, <<>>, <<>>, 0)]

\* the skip test on the tessellation of a leaf
Skipped(b3d_shape) ==
    SkipTest(Tessellation[b3d_shape].vertices, Tessellation[b3d_shape].triangles)

\* Mesher._create_3mf_mesh on the tessellation of each leaf shape handed in,
\* worked out once
Welded ==
    [b3d_shape \in MeshedShapes |->
        create_3mf_mesh(Tessellation[b3d_shape].vertices,
                        Tessellation[b3d_shape].triangles)]

\* a leaf with what Lib3MF finds for it; it is asked only when the leaf is
\* not skipped
LeafInputs ==
    {in \in LeafShapes \X Checks : in[2] = "closed" \/ ~Skipped(in[1])}

\* Mesher._add_color: a new material group with one material, bound to h
add_color(st, h, color) ==
    IF color = NoColor THEN st
    ELSE LET gid == st.model.nres + 1
         IN  [st EXCEPT
                !.model.nres = gid,
                !.model.materials =
                    Append(@, [id |-> gid, colors |-> <<FloatRGBAToColor(color)>>]),
                !.heap[h].prop = [enabled |-> TRUE, group |-> gid, index |-> 1]]

\* what became of a leaf, and the handle of the mesh object made for it
Outcome(result, h) == [result |-> result, mesh |-> h]

ReplaceMeshes(ms, h) == <<h>>

\* self.meshes.append(mesh_3mf)
AppendMesh(ms, h) == Append(ms, h)

IsValidAlways(check) == TRUE

\* mesh_3mf.IsValid()
IsValid(check) == check /= "invalid"

\* mesh_3mf.IsManifoldAndOriented()
IsManifoldAndOriented(check) == check = "closed"

\* the statements named in names run for leaf k, one after the other, after
\* those of stages; they are recorded when tracing is asked for
Then(tracing, stages, k, names) ==
    IF tracing THEN stages \o [i \in 1..Len(names) |-> <<names[i], k>>]
    ELSE stages

\* the body of the loop over shapes in add_shape, for leaf k; st holds the
\* model, heap and meshes so far and what happened to the leaves before
LeafStep(st, b3d_shape, check, opt, k) ==
    LET h == Len(st.heap) + 1
        \* mesh_3mf = self.model.AddMeshObject()
        \* Mesher._mesh_shape(copy_module.deepcopy(b3d_shape), ...)
        ocp_mesh == deepcopy(CallerShape(b3d_shape))
        st1 == [st EXCEPT !.heap = Append(@, NewMeshObject),
                          !.model.mesh_objects = Append(@, h),
                          !.model.nres = @ + 1,
                          !.tessellated = IncrementalMesh(@, ocp_mesh),
                          !.stages = Then(st.tracing, @, k,
                                          <<"AddMeshObject", "deepcopy",
                                            "_mesh_shape">>)]
    IN  IF Skipped(b3d_shape)
        THEN [st1 EXCEPT !.outcomes = Append(@, Outcome("skipped", h)),
                         !.warnings = Append(@, <<"Degenerate shape", k>>),
                         !.stages = Then(st.tracing, @, k, <<"skip">>)]
        ELSE
        LET r == Welded[b3d_shape]
            \* SetGeometry, SetType, SetName, SetPartNumber, SetUUID
            st2 == [st1 EXCEPT
                      !.heap[h].vertices = r.vertices_3mf,
                      !.heap[h].triangles = r.triangles_3mf,
                      !.heap[h].type = map_b3d_mesh_type_3mf[opt.mesh_type],
                      !.heap[h].name =
                          IF b3d_shape.label /= "" THEN b3d_shape.label ELSE @,
                      !.heap[h].part_number =
                          IF opt.part_number /= "" THEN opt.part_number ELSE @,
                      !.heap[h].uuid =
                          IF opt.uuid_value /= "" THEN opt.uuid_value ELSE @,
                      !.stages = Then(st.tracing, @, k,
                          <<"weld", "filter", "SetGeometry", "SetType">>
                          \o (IF b3d_shape.label /= ""
                              THEN <<"SetName">> ELSE <<>>)
                          \o (IF opt.part_number /= ""
                              THEN <<"SetPartNumber">> ELSE <<>>)
                          \o (IF opt.uuid_value /= ""
                              THEN <<"SetUUID">> ELSE <<>>))]
            st3 == [add_color(st2, h, b3d_shape.color) EXCEPT
                      !.stages = Then(st.tracing, @, k,
                                      <<"_add_color", "IsValid">>)]
        IN  IF ~IsValid(check)
            THEN [st3 EXCEPT !.outcomes = Append(@, Outcome("raised", h)),
                             !.raised = "RuntimeError",
                             !.stages = Then(st.tracing, @, k, <<"raise">>)]
            ELSE [st3 EXCEPT
                    !.stages = Then(st.tracing, @, k,
                                    <<"IsManifoldAndOriented", "append",
                                      "AddBuildItem", "AddComponent">>),
                    !.warnings = IF ~IsManifoldAndOriented(check)
                                 THEN Append(@, <<"not manifold", k>>) ELSE @,
                    !.meshes = AppendMesh(@, h),
                    !.model.build_items = Append(@, h),
                    !.model.components = Append(@, h),
                    !.model.nres = @ + 1,
                    !.outcomes = Append(@, Outcome("appended", h))]

\* the loop going on after a raise
RECURSIVE LeafLoopOn(_, _, _, _, _)
LeafLoopOn(st, shapes, checks, opt, k) ==
    IF k > Len(shapes) THEN st
    ELSE LeafLoopOn(LeafStep(st, shapes[k], checks[k], opt, k),
                    shapes, checks, opt, k + 1)

\* the leaves taken from the last one to the first
RECURSIVE LeafLoopReversed(_, _, _, _, _)
LeafLoopReversed(st, shapes, checks, opt, k) ==
    IF k > Len(shapes) THEN st
    ELSE LET later == LeafLoopReversed(st, shapes, checks, opt, k + 1)
         IN  IF later.raised /= "none" THEN later
             ELSE LeafStep(later, shapes[k], checks[k], opt, k)

\* the loop over shapes in add_shape, from leaf k on; it ends at a raise
RECURSIVE LeafLoop(_, _, _, _, _)
LeafLoop(st, shapes, checks, opt, k) ==
    IF k > Len(shapes) \/ st.raised /= "none"
    THEN st
    ELSE LeafLoop(LeafStep(st, shapes[k], checks[k], opt, k),
                  shapes, checks, opt, k + 1)

\* Mesher.add_shape once `shapes` is built: arg.shapes is that list,
\* arg.checks what Lib3MF finds for each of its elements, arg.opt the other
\* arguments; with arg.trace the statements run are recorded in last.stages
AddShapeWith(arg) ==
    /\ calls' = calls + 1
    \* Lib3MF is asked about a leaf only when the leaf is reached
    /\ \A k \in 1..Len(arg.shapes) :
          arg.checks[k] = "closed"
          \/ \A j \in 1..(k - 1) : arg.checks[j] /= "invalid"
    /\ LET st == LeafLoop([model |-> model, heap |-> heap, meshes |-> meshes,
                           outcomes |-> <<>>, warnings |-> <<>>,
                           raised |-> "none", tessellated |-> tessellated,
                           stages |-> <<>>,
                           tracing |-> "trace" \in DOMAIN arg],
                          arg.shapes, arg.checks, arg.opt, 1)
       IN  /\ model' = st.model
           /\ heap' = st.heap
           /\ meshes' = st.meshes
           /\ tessellated' = st.tessellated
           /\ last' = [Call("add_shape", arg, st.raised, <<>>,
                             st.outcomes, st.warnings)
                           EXCEPT !.stages = st.stages]
    /\ UNCHANGED <<unit, files, wrote_unit, made_unit>>
    /\ UNCHANGED mesh_vars

\* Mesher.add_shape(shapes, mesh_type, part_number, uuid_value) on a list of
\* leaf shapes
AddShape(shapes, checks, opt) ==
    AddShapeWith([shapes |-> shapes, checks |-> checks, opt |-> opt])

\* Mesher.add_shape(shape, mesh_type, part_number, uuid_value) on a shape
\* or a list of shapes, Compounds among them: arg.shape is what was handed
\* in and arg.items the list `shapes` built from it
AddShapeOf(shape, checks, opt) ==
    LET items == Expand(shape)
    IN  AddShapeWith([shapes |-> [k \in 1..Len(items) |-> AsMeshed(items[k])],
                      checks |-> checks, opt |-> opt,
                      shape |-> shape, items |-> items])

\* add_shape with every choice of leaf shapes and of what Lib3MF finds
AddShapeCall ==
    \E n \in 1..MaxLeaves :
        /\ Len(heap) + n <= MaxObjects
        /\ \E inputs \in [1..n -> LeafInputs], opt \in Options :
              AddShape([k \in 1..n |-> inputs[k][1]],
                       [k \in 1..n |-> inputs[k][2]], opt)

ReadCall ==
    \E path \in Paths :
        /\ files[path] /= NoFile =>
              Len(heap) + Len(ObjectsOf(files[path])) <= MaxObjects
        /\ Read(path)

WriteCall == \E path \in Paths : Write(path)

\* a new Mesher; its run has not begun
ConstructCall ==
    /\ last.op /= "init"
    /\ \E u \in UnitsUsed : Construct(u)

Next ==
    \/ /\ calls < MaxCalls
       /\ \/ AddShapeCall
          \/ ReadCall
          \/ WriteCall
    \/ ConstructCall

Spec == Init /\ [][Next]_vars

\* ------------------------------------------- files and units, plain shapes
\* Meshers of every unit; add_shape is called with one sound leaf at a time
IOInit ==
    /\ MeshIdle
    /\ \E u \in Unit :
          /\ unit = u
          /\ model = CreateModel(map_b3d_to_3mf_unit[u])
          /\ last = Call("init", u, "none", <<>>, <<>>, <<>>)
    /\ meshes = <<>>
    /\ heap = <<>>
    /\ files = [p \in Paths |-> NoFile]
    /\ calls = 0
    /\ wrote_unit = [p \in Paths |-> "none"]
    /\ made_unit = unit
    /\ tessellated = {}

AddPlainCall ==
    /\ Len(heap) + 1 <= MaxObjects
    /\ \E b3d_shape \in PlainShapes, opt \in Options :
          AddShape(<<b3d_shape>>, <<"closed">>, opt)

ConstructAnyCall ==
    /\ last.op /= "init"
    /\ \E u \in Unit : Construct(u)

IONext ==
    \/ /\ calls < MaxCalls
       /\ \/ AddPlainCall
          \/ ReadCall
          \/ WriteCall
    \/ ConstructAnyCall

SpecIO == IOInit /\ [][IONext]_vars

\* --------------------------------------------------------- add_shape alone
ExportInit ==
    /\ MeshIdle
    /\ unit = "MM"
    /\ model = CreateModel(map_b3d_to_3mf_unit["MM"])
    /\ last = Call("init", "MM", "none", <<>>, <<>>, <<>>)
    /\ meshes = <<>>
    /\ heap = <<>>
    /\ files = [p \in Paths |-> NoFile]
    /\ calls = 0
    /\ wrote_unit = [p \in Paths |-> "none"]
    /\ made_unit = unit
    /\ tessellated = {}

ExportNext == AddShapeCall

SpecExport == ExportInit /\ [][ExportNext]_vars

\* ------------------------------------------- export and import of solids
\* add_shape with closed and open shapes that Lib3MF finds valid
AddSolidCall ==
    \E n \in 1..MaxLeaves :
        /\ Len(heap) + n <= MaxObjects
        /\ \E shapes \in [1..n -> SolidShapes], opt \in Options :
              AddShape(shapes, [k \in 1..n |-> "closed"], opt)

ImportNext ==
    \/ /\ calls < MaxCalls
       /\ \/ AddSolidCall
          \/ ReadCall
          \/ WriteCall
    \/ ConstructCall

SpecImport == Init /\ [][ImportNext]_vars

\* ------------------------------------------ add_shape and the caller's shapes
\* some of the caller's shapes were tessellated before they are handed in
CopyInit ==
    /\ MeshIdle
    /\ unit = "MM"
    /\ model = CreateModel(map_b3d_to_3mf_unit["MM"])
    /\ last = Call("init", "MM", "none", <<>>, <<>>, <<>>)
    /\ meshes = <<>>
    /\ heap = <<>>
    /\ files = [p \in Paths |-> NoFile]
    /\ calls = 0
    /\ wrote_unit = [p \in Paths |-> "none"]
    /\ made_unit = "MM"
    /\ tessellated \in SUBSET {TriLeaf, Leaf(NoFaces, "", NoColor)}

\* add_shape of shapes with and without faces, found valid or not
AddCopiedCall ==
    \E n \in 1..MaxLeaves :
        /\ Len(heap) + n <= MaxObjects
        /\ \E inputs \in [1..n -> {in \in LeafInputs :
                                       in[1] \in {TriLeaf, Leaf(NoFaces, "", NoColor)}}],
              opt \in Options :
              AddShape([k \in 1..n |-> inputs[k][1]],
                       [k \in 1..n |-> inputs[k][2]], opt)

CopyNext == AddCopiedCall

SpecCopy == CopyInit /\ [][CopyNext]_vars

\* ------------------------------------------------- add_shape of Compounds
\* add_shape with every argument of ShapeArgs and every choice of what
\* Lib3MF finds
AddCompoundCall ==
    \E shape \in ShapeArgs, opt \in Options :
        LET n == Len(Expand(shape))
        IN  /\ Len(heap) + n <= MaxObjects
            /\ \E checks \in [1..n -> Checks] :
                  /\ \A k \in 1..n :
                        Skipped(AsMeshed(Expand(shape)[k])) => checks[k] = "closed"
                  /\ AddShapeOf(shape, checks, opt)

CompoundNext == calls < MaxCalls /\ AddCompoundCall

SpecCompound == ExportInit /\ [][CompoundNext]_vars

\* ---------------------------------------------------- _mesh_shape alone
\* the faces that ocp_mesh.faces() yields: triangles and quadrilaterals,
\* reversed or not, and face objects that hold no shape
FaceKinds ==
    {Face(<<Origin, OnX, OnY>>, <<<<1, 2, 3>>>>, FALSE),
     Face(<<Origin, OnX, OnZ>>, <<<<1, 2, 3>>>>, TRUE),
     Face(<<Origin, OnX, <<MaxCoord, MaxCoord, 0>>, OnY>>,
          <<<<1, 2, 3>>, <<1, 3, 4>>>>, FALSE),
     Face(<<Origin, OnX, <<MaxCoord, 0, MaxCoord>>, OnZ>>,
          <<<<1, 2, 3>>, <<1, 3, 4>>>>, TRUE),
     NullFace(<<Origin, OnX, OnY>>, <<<<1, 2, 3>>>>, TRUE),
     NullFace(<<>>, <<>>, FALSE)}

TessInit ==
    /\ MeshIdle
    /\ unit = "MM"
    /\ model = CreateModel(map_b3d_to_3mf_unit["MM"])
    /\ meshes = <<>>
    /\ heap = <<>>
    /\ files = [p \in Paths |-> NoFile]
    /\ \E faces \in SeqsUpTo(FaceKinds, MaxFaces) :
          last = Call("_mesh_shape", faces, "none", <<>>, <<>>, <<>>)
    /\ calls = 0
    /\ wrote_unit = [p \in Paths |-> "none"]
    /\ made_unit = unit
    /\ tessellated = {}

\* one call of _mesh_shape on a shape with the drawn faces; what it returns
\* is what _create_3mf_mesh is handed
MeshShape ==
    /\ mesh_pc = "idle"
    /\ LET r == mesh_shape(last.arg, 1, <<>>, <<>>, 0)
       IN  /\ ocp_mesh_vertices' = IF r.raised = "none" THEN r.vertices ELSE <<>>
           /\ triangles' = IF r.raised = "none" THEN r.triangles ELSE <<>>
           /\ last' = [last EXCEPT !.raised = r.raised]
    /\ mesh_pc' = "call"
    /\ UNCHANGED <<vert_table, vertices_3mf, triangles_3mf>>
    /\ UNCHANGED <<unit, model, meshes, heap, files, calls, wrote_unit,
                   made_unit, tessellated>>

TessNext == MeshShape

SpecTess == TessInit /\ [][TessNext]_vars

\* ----------------------------------------------------- _get_shape alone
\* the vertices of a mesh object out of a file that another program wrote:
\* three of them on one line
ForeignVertices ==
    <<Position(<<0, 0, 0>>), Position(<<1, 0, 0>>), Position(<<2, 0, 0>>),
      Position(<<0, 1, 0>>)>>

\* its triangles: with area, with all corners on one line, with a corner
\* used twice or three times
ForeignTriangles ==
    {<<0, 1, 3>>, <<0, 3, 1>>, <<1, 2, 3>>, <<0, 2, 3>>,
     <<0, 1, 2>>, <<2, 1, 0>>, <<0, 0, 1>>, <<1, 1, 1>>}

ShapeInit ==
    /\ MeshIdle
    /\ unit = "MM"
    /\ model = CreateModel(map_b3d_to_3mf_unit["MM"])
    /\ meshes = <<>>
    /\ heap = <<>>
    /\ files = [p \in Paths |-> NoFile]
    /\ \E tris \in SeqsUpTo(ForeignTriangles, MaxMeshTris) :
          last = Call("_get_shape",
                      [vertices |-> ForeignVertices, triangles |-> tris],
                      "none", <<>>, <<>>, <<>>)
    /\ calls = 0
    /\ wrote_unit = [p \in Paths |-> "none"]
    /\ made_unit = unit
    /\ tessellated = {}

\* one call of _get_shape on the drawn mesh object
GetShape ==
    /\ calls = 0
    /\ calls' = 1
    /\ last' = [last EXCEPT !.returned = <<get_shape(last.arg)>>]
    /\ UNCHANGED <<unit, model, meshes, heap, files, wrote_unit, made_unit,
                   tessellated>>
    /\ UNCHANGED mesh_vars

ShapeNext == GetShape

SpecShape == ShapeInit /\ [][ShapeNext]_vars

\* ------------------------------------- add_shape on lists of a few leaves
\* a shape without faces and a sound one, with what Lib3MF finds for them
FewInputs ==
    {in \in {Leaf(NoFaces, "", NoColor), TriLeaf} \X Checks :
        in[2] = "closed" \/ ~Skipped(in[1])}

AddFewCall ==
    \E n \in 1..MaxLeaves :
        /\ Len(heap) + n <= MaxObjects
        /\ \E inputs \in [1..n -> FewInputs], opt \in Options :
              AddShapeWith([shapes |-> [k \in 1..n |-> inputs[k][1]],
                            checks |-> [k \in 1..n |-> inputs[k][2]],
                            opt |-> opt, trace |-> TRUE])

LeavesNext == AddFewCall

SpecLeaves == ExportInit /\ [][LeavesNext]_vars

\* ------------------------------------------- the unit over all the calls
\* the meta data handed to add_meta_data
MetaData ==
    {[name_space |-> "build123d", name |-> "author", value |-> "me",
      metadata_type |-> "string", must_preserve |-> preserve] :
        preserve \in BOOLEAN}

\* Mesher.add_meta_data(name_space, name, value, metadata_type,
\* must_preserve); has_group tells whether self.model.GetMetaDataGroup()
\* yields a group.  If not, a components object without components is added
\* to the model and the entry goes to its group
AddMetaData(entry, has_group) ==
    /\ calls' = calls + 1
    /\ model' =
          IF has_group
          THEN [model EXCEPT
                  !.meta_data = Append(@, [entry |-> entry, of |-> "model"])]
          ELSE [model EXCEPT
                  !.components = Append(@, 0),
                  !.nres = @ + 1,
                  !.meta_data = Append(@, [entry |-> entry,
                                           of |-> "components"])]
    /\ last' = Call("add_meta_data", entry, "none", <<>>, <<>>, <<>>)
    /\ UNCHANGED <<unit, meshes, heap, files, wrote_unit, made_unit,
                   tessellated>>
    /\ UNCHANGED mesh_vars

AddMetaDataCall ==
    /\ Len(model.meta_data) < MaxMetaData
    /\ \E entry \in MetaData, has_group \in BOOLEAN :
          AddMetaData(entry, has_group)

\* add_shape of one sound shape, whatever Lib3MF finds for it
AddCheckedCall ==
    /\ Len(heap) + 1 <= MaxObjects
    /\ \E check \in Checks, opt \in Options :
          AddShape(<<TriLeaf>>, <<check>>, opt)

UnitNext ==
    \/ /\ calls < MaxCalls
       /\ \/ AddCheckedCall
          \/ ReadCall
          \/ WriteCall
          \/ AddMetaDataCall
    \/ ConstructCall

SpecUnit == Init /\ [][UnitNext]_vars

\* ------------------------------------------------------------------------
\* Claims about _create_3mf_mesh, checked under SpecMesh

Returned == mesh_pc = "return"

\* C1: every returned triangle has three pairwise distinct canonical
\* indices, and no more triangles are returned than were passed in
C1_DegenerateElimination ==
    Returned =>
        /\ \A t \in 1..Len(triangles_3mf) :
              /\ triangles_3mf[t][1] /= triangles_3mf[t][2]
              /\ triangles_3mf[t][2] /= triangles_3mf[t][3]
              /\ triangles_3mf[t][1] /= triangles_3mf[t][3]
        /\ Len(triangles_3mf) <= Len(triangles)

\* a raw triangle whose first and last corner were welded together was
\* passed in and dropped
C1_Witness ==
    /\ Returned
    /\ Len(triangles) = 1
    /\ Len(triangles_3mf) = 0
    /\ vert_table[triangles[1][1] + 1] = vert_table[triangles[1][3] + 1]
    /\ vert_table[triangles[1][1] + 1] /= vert_table[triangles[1][2] + 1]

\* the coordinates of p and q rounded to `digits` places agree on every axis
SameRounded(p, q) ==
    \A axis \in 1..3 : RoundDigits(p[axis]) = RoundDigits(q[axis])

\* C2: raw vertices i and j get the same canonical index exactly when their
\* rounded coordinates are identical on all three axes
C2_WeldingInvariant ==
    Returned =>
        \A i, j \in 1..Len(ocp_mesh_vertices) :
            (vert_table[i] = vert_table[j])
                <=> SameRounded(ocp_mesh_vertices[i], ocp_mesh_vertices[j])

\* two different raw points were welded and a third one, differing from the
\* first in z only, was kept apart
C2_Witness ==
    /\ Returned
    /\ \E i, j, k \in 1..Len(ocp_mesh_vertices) :
          /\ ocp_mesh_vertices[i] /= ocp_mesh_vertices[j]
          /\ vert_table[i] = vert_table[j]
          /\ ocp_mesh_vertices[k][3] /= ocp_mesh_vertices[i][3]
          /\ ocp_mesh_vertices[k][1] = ocp_mesh_vertices[i][1]
          /\ ocp_mesh_vertices[k][2] = ocp_mesh_vertices[i][2]
          /\ vert_table[k] /= vert_table[i]

\* C3: the returned vertex list has no two entries with the same quantized
\* key (two equal entries have the same one), canonical indices follow the
\* order of first occurrence, and every returned triangle index is a valid
\* index into the returned vertex list
C3_MeshWellFormed ==
    Returned =>
        /\ \A k, l \in 1..Len(vertices_3mf) :
              k /= l => vertices_3mf[k] /= vertices_3mf[l]
        /\ \A i \in 1..Len(ocp_mesh_vertices) :
              \/ /\ \A h \in 1..(i - 1) :
                        ~SameRounded(ocp_mesh_vertices[h], ocp_mesh_vertices[i])
                 /\ vert_table[i] = Cardinality({vert_table[h] : h \in 1..(i - 1)})
              \/ \E h \in 1..(i - 1) :
                    /\ SameRounded(ocp_mesh_vertices[h], ocp_mesh_vertices[i])
                    /\ vert_table[i] = vert_table[h]
        /\ \A t \in 1..Len(triangles_3mf) : \A c \in 1..3 :
              0 <= triangles_3mf[t][c] /\ triangles_3mf[t][c] < Len(vertices_3mf)

\* ------------------------------------------------------------------------
\* Claims about add_shape, checked under SpecExport and SpecLeaves

\* the step is a call of add_shape
AddShapeStep == calls' = calls + 1 /\ last'.op = "add_shape"

Elements(seq) == {seq[k] : k \in 1..Len(seq)}

\* C4: a leaf with fewer than 3 welded vertices or no surviving triangle is
\* skipped (no geometry set, not in meshes, no build item) and the leaves
\* after it are still processed; so every entry of meshes has at least 3
\* welded vertices and at least 1 triangle
C4_SkipCondition ==
    /\ last.op = "add_shape" =>
          \A k \in 1..Len(last.outcomes) :
              LET welded == Welded[last.arg.shapes[k]]
                  h == last.outcomes[k].mesh
              IN  (Len(welded.vertices_3mf) < 3 \/ Len(welded.triangles_3mf) = 0)
                  => /\ last.outcomes[k].result = "skipped"
                     /\ heap[h].vertices = <<>> /\ heap[h].triangles = <<>>
                     /\ h \notin Elements(meshes)
                     /\ h \notin Elements(model.build_items)
                     /\ k < Len(last.arg.shapes) => Len(last.outcomes) > k
    /\ \A k \in 1..Len(meshes) :
          /\ Len(heap[meshes[k]].vertices) >= 3
          /\ Len(heap[meshes[k]].triangles) >= 1

\* C5: a call of add_shape whose leaves all tessellate to fewer than 3
\* vertices leaves mesh_count and the lengths of triangle_counts and
\* vertex_counts as they were
C5_SkipOnDegenerateFrame ==
    [][(/\ AddShapeStep
        /\ \A k \in 1..Len(last'.arg.shapes) :
              Len(Tessellation[last'.arg.shapes[k]].vertices) < 3)
       => /\ mesh_count(model') = mesh_count(model)
          /\ Len(triangle_counts(meshes', heap'))
                = Len(triangle_counts(meshes, heap))
          /\ Len(vertex_counts(meshes', heap'))
                = Len(vertex_counts(meshes, heap))]_vars

\* the handles, in leaf order, of the leaves that Test accepts;
\* leaf k of a call gets the handle base + k
RECURSIVE HandlesFrom(_, _, _)
HandlesFrom(accepts, base, k) ==
    IF k > Len(accepts) THEN <<>>
    ELSE (IF accepts[k] THEN <<base + k>> ELSE <<>>)
         \o HandlesFrom(accepts, base, k + 1)

HandlesOf(arg, base, Test(_, _)) ==
    HandlesFrom([k \in 1..Len(arg.shapes) |-> Test(arg, k)], base, 1)

\* leaf k tessellates to at least 3 vertices and at least 1 triangle
NotSkipped(arg, k) ==
    /\ Len(Tessellation[arg.shapes[k]].vertices) >= 3
    /\ Len(Tessellation[arg.shapes[k]].triangles) >= 1

\* leaf k is not skipped, is found valid, and no leaf before it is found
\* invalid
Accepted(arg, k) ==
    /\ NotSkipped(arg, k)
    /\ \A j \in 1..k : NotSkipped(arg, j) => arg.checks[j] /= "invalid"

\* what is in meshes before the call is the same, and in the same place,
\* after it
EntriesKept ==
    /\ Len(meshes') >= Len(meshes)
    /\ SubSeq(meshes', 1, Len(meshes)) = meshes
    /\ \A h \in 1..Len(heap) : heap'[h] = heap[h]

\* C6 as stated: every add_shape call keeps the entries of meshes and
\* appends one entry per non-skipped leaf, in leaf order
C6_AppendPerNonSkippedLeaf ==
    [][AddShapeStep =>
          /\ EntriesKept
          /\ meshes' = meshes \o HandlesOf(last'.arg, Len(heap), NotSkipped)]_vars

\* C6 as amended: every add_shape call keeps the entries of meshes and
\* appends one entry per leaf that is not skipped and found valid, in leaf
\* order, up to the first leaf found invalid
C6_AppendNotReplace ==
    [][AddShapeStep =>
          /\ EntriesKept
          /\ meshes' = meshes \o HandlesOf(last'.arg, Len(heap), Accepted)]_vars

\* a second call appended two leaves behind the entry of the first call
C6_Witness ==
    /\ last.op = "add_shape"
    /\ calls = 2
    /\ Len(last.outcomes) = 2
    /\ last.outcomes[1].result = "appended"
    /\ last.outcomes[2].result = "appended"
    /\ meshes = <<1, 2, 3>>

\* C7: of a leaf whose mesh object was populated, an invalid one makes the
\* call raise RuntimeError and is not in meshes; a valid one that is not
\* manifold and oriented gets a warning and is in meshes and in the build
C7_ValidationOutcome ==
    last.op = "add_shape" =>
        /\ \A k \in 1..Len(last.outcomes) :
              LET h == last.outcomes[k].mesh
                  check == last.arg.checks[k]
              IN  NotSkipped(last.arg, k) =>
                     /\ check = "invalid" =>
                           /\ last.raised = "RuntimeError"
                           /\ h \notin Elements(meshes)
                     /\ check = "open" =>
                           /\ <<"not manifold", k>> \in Elements(last.warnings)
                           /\ h \in Elements(meshes)
                           /\ h \in Elements(model.build_items)
        /\ last.raised = "RuntimeError" =>
              \E k \in 1..Len(last.outcomes) :
                  NotSkipped(last.arg, k) /\ last.arg.checks[k] = "invalid"

\* one call in which a valid open leaf was appended with a warning and the
\* next leaf was found invalid
C7_Witness ==
    /\ last.op = "add_shape"
    /\ last.raised = "RuntimeError"
    /\ Len(last.outcomes) = 2
    /\ last.arg.checks = <<"open", "invalid">>
    /\ last.outcomes[1].result = "appended"
    /\ last.warnings = <<<<"not manifold", 1>>>>

\* ------------------------------------------------------------------------
\* Claims about read and write

\* the step is a call of read or of write
ReadOrWriteStep == calls' = calls + 1 /\ last'.op \in {"read", "write"}

\* C8: read and write of a path whose extension is neither .3mf nor .stl
\* raise ValueError and leave the Mesher and the files as they were
C8_ExtensionGate ==
    [][(/\ ReadOrWriteStep
        /\ splitext(last'.arg) /= <<".", "3", "m", "f">>
        /\ splitext(last'.arg) /= <<".", "s", "t", "l">>)
       => /\ last'.raised = "ValueError"
          /\ UNCHANGED <<unit, model, meshes, heap, files>>]_vars

\* read of "c.3MF" was refused on a Mesher that holds a mesh, with a file
\* written
C8_Witness ==
    /\ last.op = "read"
    /\ last.arg = <<"c", ".", "3", "M", "F">>
    /\ last.raised = "ValueError"
    /\ Len(meshes) > 0
    /\ \E p \in Paths : files[p] /= NoFile

\* C9: read returns one shape per mesh object of the container read, in the
\* container's order, each with that object's name as label and its colour
\* when one is bound
C9_ReadReturnsContainer ==
    (last.op = "read" /\ last.raised = "none") =>
        /\ Len(last.returned) = Len(model.mesh_objects)
        /\ \A k \in 1..Len(model.mesh_objects) :
              LET h == model.mesh_objects[k]
              IN  /\ k <= Len(last.returned)
                  /\ last.returned[k].mesh = h
                  /\ last.returned[k].label = heap[h].name
                  /\ heap[h].prop.enabled <=> last.returned[k].color /= NoColor

\* C10 as stated: after a file is read, model_unit is the unit of the Mesher
\* that wrote it
C10_UnitRoundTrip ==
    (last.op = "read" /\ last.raised = "none") => unit = wrote_unit[last.arg]

\* C10 as amended: after a .3mf file is read, model_unit is the unit of the
\* Mesher that wrote it
C10_UnitRoundTrip3mf ==
    (/\ last.op = "read"
     /\ last.raised = "none"
     /\ splitext(last.arg) = <<".", "3", "m", "f">>)
    => unit = wrote_unit[last.arg]

\* a Mesher made with one unit read a .3mf file written with another
C10_Witness ==
    /\ last.op = "read"
    /\ last.raised = "none"
    /\ splitext(last.arg) = <<".", "3", "m", "f">>
    /\ wrote_unit[last.arg] = "IN"
    /\ made_unit = "MC"
    /\ unit = "IN"

\* ------------------------------------------------------------------------
\* Claims about the tables

\* C11: the unit table and the mesh-role table are bijections onto the six
\* container units and the four container object types, and each reverse
\* table is the inverse of its forward table in both directions
C11_TablesBijective ==
    /\ DOMAIN map_b3d_to_3mf_unit = Unit
    /\ DOMAIN map_3mf_to_b3d_unit = ModelUnit
    /\ \A u \in Unit : map_3mf_to_b3d_unit[map_b3d_to_3mf_unit[u]] = u
    /\ \A mu \in ModelUnit : map_b3d_to_3mf_unit[map_3mf_to_b3d_unit[mu]] = mu
    /\ DOMAIN map_b3d_mesh_type_3mf = MeshType
    /\ DOMAIN map_3mf_to_b3d_mesh_type = ObjectType
    /\ \A t \in MeshType :
          map_3mf_to_b3d_mesh_type[map_b3d_mesh_type_3mf[t]] = t
    /\ \A ot \in ObjectType :
          map_b3d_mesh_type_3mf[map_3mf_to_b3d_mesh_type[ot]] = ot
    \* the tables as the Mesher uses them: the model holds the forward image
    \* of the unit, and read took the unit back through the reverse table
    /\ model.unit \in ModelUnit
    /\ map_b3d_to_3mf_unit[unit] = model.unit
    /\ \A k \in 1..Len(meshes) : heap[meshes[k]].type \in ObjectType

\* a Mesher made in metres read a file in feet, and holds a mesh object of
\* type Support
C11_Witness ==
    /\ last.op = "read"
    /\ last.raised = "none"
    /\ made_unit = "M"
    /\ model.unit = "Foot"
    /\ unit = "FT"
    /\ \E k \in 1..Len(meshes) : heap[meshes[k]].type = "Support"

\* ------------------------------------------------------------------------
\* Claims about the expansion of Compounds

\* the leaves of a shape, at any depth, in order
RECURSIVE LeavesOf(_)
RECURSIVE LeavesOfAll(_)
LeavesOfAll(shapes) ==
    IF Len(shapes) = 0 THEN <<>>
    ELSE LeavesOf(Head(shapes)) \o LeavesOfAll(Tail(shapes))

LeavesOf(shape) ==
    IF IsCompound(shape) THEN LeavesOfAll(shape.children)
    ELSE IF "items" \in DOMAIN shape THEN LeavesOfAll(shape.items)
    ELSE <<shape>>

\* C12: add_shape processes exactly the leaves of its argument, at any
\* depth, one mesh object per leaf, and never a Compound as one entry
C12_CompoundExpansion ==
    last.op = "add_shape" =>
        /\ last.arg.items = LeavesOf(last.arg.shape)
        /\ \A k \in 1..Len(last.arg.items) : ~IsCompound(last.arg.items[k])
        /\ last.raised = "none" =>
              Len(last.outcomes) = Len(LeavesOf(last.arg.shape))

\* ------------------------------------------------------------------------
\* More claims about _create_3mf_mesh, checked under SpecMesh

\* the first raw vertex (1-based) that was given canonical index c
FirstRaw(c) ==
    CHOOSE i \in 1..Len(ocp_mesh_vertices) :
        /\ vert_table[i] = c
        /\ \A j \in 1..(i - 1) : vert_table[j] /= c

\* the emitted binary32 e is that of the raw coordinate x.  What is emitted
\* is the binary32 of a multiple of 10^-digits; a raw coordinate drawn off
\* that grid lies below 128 units, where binary32 tells it from every
\* multiple
EmittedIs(e, x) == x % Scale = 0 /\ e = c_float(x \div Scale)

\* C13: the vertex emitted for canonical index c has the coordinates of the
\* first raw vertex that got c, not those of its rounded key
C13_OriginalCoordinates ==
    Returned =>
        \A c \in 1..Len(vertices_3mf) :
            \A axis \in 1..3 :
                EmittedIs(vertices_3mf[c][axis],
                          ocp_mesh_vertices[FirstRaw(c - 1)][axis])

\* ------------------------------------------------------------------------
\* Claims about the reconstruction of shapes, checked under SpecImport

\* facets f and g of one sewn shape are joined by a chain of at most n
\* shared edges
RECURSIVE Joined(_, _, _, _)
Joined(facets, f, g, n) ==
    \/ f = g
    \/ /\ n > 0
       /\ \E h \in 1..Len(facets) :
             /\ EdgesOf(facets[f]) \cap EdgesOf(facets[h]) /= {}
             /\ Joined(facets, h, g, n - 1)

\* the shell that facet f is part of: the facets joined to it
ShellOf(facets, f) ==
    {g \in 1..Len(facets) : Joined(facets, f, g, Len(facets))}

\* every edge of the shell is shared by exactly two of its faces
ShellManifold(facets, shell) ==
    \A f \in shell : \A edge \in EdgesOf(facets[f]) :
        Cardinality({g \in shell : edge \in EdgesOf(facets[g])}) = 2

C15_CallerShapeUnchanged ==
    [][AddShapeStep => tessellated' = tessellated]_vars

\* add_shape raised on its second leaf, and neither leaf, one of them
\* skipped, holds a triangulation afterwards
C15_Witness ==
    /\ last.op = "add_shape"
    /\ last.raised = "RuntimeError"
    /\ Len(last.outcomes) = 2
    /\ last.outcomes[1].result = "skipped"
    /\ tessellated = {}

\* ------------------------------------------------------------------------
\* More claims about read, checked under SpecIO

\* C16: read of a path with a supported extension and no file behind it
\* asks the reader once, ends with the reader's exception as it is, and
\* leaves unit and meshes as they were
C16_MissingFile ==
    [][(/\ calls' = calls + 1
        /\ last'.op = "read"
        /\ KnownExtension(splitext(last'.arg))
        /\ files[last'.arg] = NoFile)
       => /\ last'.outcomes = <<<<"ReadFromFile", 1>>>>
          /\ last'.raised = "Lib3MFException"
          /\ UNCHANGED <<unit, meshes>>]_vars

\* read of a missing .stl file failed on a Mesher that holds a mesh
C16_Witness ==
    /\ last.op = "read"
    /\ last.arg = <<"b", ".", "s", "t", "l">>
    /\ files[last.arg] = NoFile
    /\ last.raised = "Lib3MFException"
    /\ Len(meshes) = 1

\* the colour of the shape of PlainShapes that has this label
ColorGiven(label) == (CHOOSE b \in PlainShapes : b.label = label).color

\* the shapes that read returned for the mesh objects of the file read: the
\* last ones of the list
FromFile(k) == last.returned[Len(last.returned) - Len(model.mesh_objects) + k]

\* every channel of colour c is a multiple of 1/255
EightBit(c) == \A ch \in 1..Len(c) : c[ch] % 2 = 0

\* leaf k of the last add_shape call has a material bound whose display
\* colour is c
BoundTo(k, c) ==
    LET prop == heap[last.outcomes[k].mesh].prop
    IN  /\ prop.enabled
        /\ ColorToFloatRGBA(DisplayColor(model, prop.group, prop.index)) = c

\* C17 as stated: a leaf added with colour c is bound to a material whose
\* display colour is c, a leaf without colour has no material bound, and read
\* of the written file gives every shape the colour its leaf was added with
C17_ColorRoundTrip ==
    /\ last.op = "add_shape" =>
          \A k \in 1..Len(last.outcomes) :
              LET c == last.arg.shapes[k].color
              IN  IF c = NoColor
                  THEN ~heap[last.outcomes[k].mesh].prop.enabled
                  ELSE BoundTo(k, c)
    /\ (/\ last.op = "read"
        /\ last.raised = "none"
        /\ splitext(last.arg) = <<".", "3", "m", "f">>)
       => \A k \in 1..Len(model.mesh_objects) :
              FromFile(k).color = ColorGiven(FromFile(k).label)

\* C17 as amended: the same for a colour whose channels are multiples of
\* 1/255, and for no colour
C17_ColorRoundTrip8Bit ==
    /\ last.op = "add_shape" =>
          \A k \in 1..Len(last.outcomes) :
              LET c == last.arg.shapes[k].color
              IN  /\ c = NoColor => ~heap[last.outcomes[k].mesh].prop.enabled
                  /\ (c /= NoColor /\ EightBit(c)) => BoundTo(k, c)
    /\ (/\ last.op = "read"
        /\ last.raised = "none"
        /\ splitext(last.arg) = <<".", "3", "m", "f">>)
       => \A k \in 1..Len(model.mesh_objects) :
              EightBit(ColorGiven(FromFile(k).label))
                  => FromFile(k).color = ColorGiven(FromFile(k).label)

\* a new Mesher read the file of a red shape and returned one red shape
C17_Witness ==
    /\ last.op = "read"
    /\ last.raised = "none"
    /\ splitext(last.arg) = <<".", "3", "m", "f">>
    /\ Len(heap) = 1
    /\ Len(last.returned) = 1
    /\ last.returned[1].label = "tri"
    /\ last.returned[1].color = Red
    /\ heap[1].prop.enabled

\* C18: a read that got its file makes no material lookup for a mesh whose
\* property has no material enabled and returns its shape without colour;
\* when no mesh has a material enabled it does not raise
C18_AbsentColor ==
    (/\ last.op = "read"
     /\ KnownExtension(splitext(last.arg))
     /\ files[last.arg] /= NoFile)
    => /\ \A k \in 1..Len(meshes) :
             ~heap[meshes[k]].prop.enabled =>
                /\ <<"GetBaseMaterialGroupByID", k>> \notin Elements(last.outcomes)
                /\ last.raised = "none" => last.returned[k].color = NoColor
       /\ (\A k \in 1..Len(meshes) : ~heap[meshes[k]].prop.enabled)
             => last.raised = "none"

\* read of a file whose mesh object has no material returned shapes without
\* colour and made no lookup
C18_Witness ==
    /\ last.op = "read"
    /\ last.raised = "none"
    /\ splitext(last.arg) = <<".", "3", "m", "f">>
    /\ Len(last.returned) = 2
    /\ ~heap[meshes[2]].prop.enabled
    /\ last.returned[2].label = "plain"
    /\ last.returned[2].color = NoColor
    /\ Len(last.outcomes) = 1

\* ------------------------------------------------------------------------
\* Claims about welding and filtering in _create_3mf_mesh

\* C19: when no two raw vertices share a rounded key, as many vertices are
\* returned as were passed in and vert_table[i] = i for every raw index i
C19_WeldingIdempotence ==
    (/\ Returned
     /\ \A i, j \in 1..Len(ocp_mesh_vertices) :
           i /= j => ~SameRounded(ocp_mesh_vertices[i], ocp_mesh_vertices[j]))
    => /\ Len(vertices_3mf) = Len(ocp_mesh_vertices)
       /\ \A i \in 1..Len(ocp_mesh_vertices) : vert_table[i] = i - 1

\* three raw vertices with three different keys were passed in
C19_Witness ==
    /\ Returned
    /\ Len(ocp_mesh_vertices) = 3
    /\ \A i, j \in 1..3 :
          i /= j => ~SameRounded(ocp_mesh_vertices[i], ocp_mesh_vertices[j])
    /\ vert_table = <<0, 1, 2>>
    /\ Len(vertices_3mf) = 3

\* a raw triangle with its indices replaced by their canonical indices
Canonical(tri) ==
    <<vert_table[tri[1] + 1], vert_table[tri[2] + 1], vert_table[tri[3] + 1]>>

\* the three indices are pairwise different
PairwiseDistinct(tri) ==
    tri[1] /= tri[2] /\ tri[2] /= tri[3] /\ tri[1] /= tri[3]

\* C20: the returned triangles are the raw triangles whose canonical
\* indices are pairwise different, with canonical indices, in input order
C20_FilterOrder ==
    Returned =>
        triangles_3mf =
            SelectSeq([t \in 1..Len(triangles) |-> Canonical(triangles[t])],
                      PairwiseDistinct)

\* of three raw triangles the second was dropped and the other two, which
\* differ, were returned in input order
C20_Witness ==
    /\ Returned
    /\ Len(triangles) = 3
    /\ ~PairwiseDistinct(Canonical(triangles[2]))
    /\ Canonical(triangles[1]) /= Canonical(triangles[3])
    /\ triangles_3mf = <<Canonical(triangles[1]), Canonical(triangles[3])>>

\* raw points p and q differ by less than 10^-digits / 2 on every axis
CloserThanHalfStep(p, q) ==
    \A axis \in 1..3 : 2 * Abs(p[axis] - q[axis]) < Scale

\* raw points p and q differ by more than TOLERANCE = 10^-digits on some axis
FartherThanTolerance(p, q) ==
    \E axis \in 1..3 : Abs(p[axis] - q[axis]) > Scale

\* C21: raw points less than 10^-digits / 2 apart on every axis get the
\* same canonical index, and raw points more than the tolerance apart on
\* some axis get different ones
C21_ToleranceCorrectness ==
    Returned =>
        \A i, j \in 1..Len(ocp_mesh_vertices) :
            /\ CloserThanHalfStep(ocp_mesh_vertices[i], ocp_mesh_vertices[j])
                  => vert_table[i] = vert_table[j]
            /\ FartherThanTolerance(ocp_mesh_vertices[i], ocp_mesh_vertices[j])
                  => vert_table[i] /= vert_table[j]

\* ------------------------------------------------------------------------
\* Claims about the round trip of a solid, checked under SpecImport

\* six times the signed volume of the tetrahedron on the origin and a, b, c
Det(a, b, c) ==
    a[1] * (b[2] * c[3] - b[3] * c[2])
    - a[2] * (b[1] * c[3] - b[3] * c[1])
    + a[3] * (b[1] * c[2] - b[2] * c[1])

\* six times the volume that the first f facets enclose
RECURSIVE Volume6(_, _)
Volume6(facets, f) ==
    IF f = 0 THEN 0
    ELSE Det(facets[f][1], facets[f][2], facets[f][3]) + Volume6(facets, f - 1)

\* the triangles of shape s as it was handed to add_shape, as points counted
\* in 1/Scale of 10^-digits
OriginalFacets(s) ==
    LET r == Tessellation[s]
    IN  [t \in 1..Len(r.triangles) |->
            [i \in 1..3 |-> r.vertices[r.triangles[t][i] + 1]]]

\* the facets of a shape that read returned, as points counted in 10^-digits;
\* the shapes of SolidShapes lie below 128 length units, where binary32
\* holds every multiple of 10^-digits apart from the others
ReturnedFacets(shape) ==
    [f \in 1..Len(shape.facets) |->
        [i \in 1..3 |-> [axis \in 1..3 |-> shape.facets[f][i][axis][2]]]]

\* the shape of SolidShapes that has this label
SolidGiven(label) == CHOOSE s \in SolidShapes : s.label = label

\* the closed shapes of SolidShapes: every edge of their triangles belongs
\* to two of them
ClosedSolids == {s \in SolidShapes : is_manifold(OriginalFacets(s))}

\* shape s is closed
ClosedSolid(s) == s \in ClosedSolids

\* the stl file that write leaves for a Mesher holding one shape of
\* SolidShapes alone
StlFiles ==
    [s \in SolidShapes |->
        WriteStl([build_items |-> <<1>>],
                 <<[vertices  |-> Welded[s].vertices_3mf,
                    triangles |-> Welded[s].triangles_3mf]>>)]

ExportedStl(s) == StlFiles[s]

\* the most that six times the volume of n facets changes, counted in
\* (1/(2 Scale))^3 of a grid cell, when every coordinate (at most MaxCoord)
\* moves by at most half a grid step
VolumeTolerance(n) ==
    n * 6 * ((2 * MaxCoord + Scale) * (2 * MaxCoord + Scale)
                 * (2 * MaxCoord + Scale)
             - 8 * MaxCoord * MaxCoord * MaxCoord)

\* the shape that read returned is shape s again: a Solid with the
\* triangles of s in their order and winding, every corner at the grid point
\* nearest to where it was, and the volume of s up to the tolerance
RoundTrips(shape, s) ==
    LET original == OriginalFacets(s)
        back == ReturnedFacets(shape)
    IN  /\ shape.kind = "Solid"
        /\ Len(back) = Len(original)
        /\ \A f \in 1..Len(back) : \A i, axis \in 1..3 :
              /\ back[f][i][axis] = RoundDigits(original[f][i][axis])
              /\ 2 * Abs(Scale * back[f][i][axis] - original[f][i][axis])
                    <= Scale
        /\ 8 * Abs(Scale * Scale * Scale * Volume6(back, Len(back))
                   - Volume6(original, Len(original)))
              <= VolumeTolerance(Len(original))

\* C22: a closed solid added with add_shape and written comes back from read
\* as a Solid whose corners lie at the grid points nearest to the original
\* ones and whose volume is the original one up to the tolerance; from a 3mf
\* file the shape is known by its label, from an stl file by being alone
C22_RoundTripVolume ==
    (last.op = "read" /\ last.raised = "none") =>
        /\ \A k \in 1..Len(last.returned) :
              LET shape == last.returned[k]
              IN  (/\ shape.label \in {s.label : s \in SolidShapes}
                   /\ ClosedSolid(SolidGiven(shape.label)))
                  => RoundTrips(shape, SolidGiven(shape.label))
        /\ \A s \in SolidShapes :
              (files[last.arg] = ExportedStl(s) /\ ClosedSolid(s))
              => RoundTrips(last.returned[Len(last.returned)], s)

\* a new Mesher read the stl file of the tetrahedron and returned one Solid
\* of positive volume
C22_Witness ==
    /\ last.op = "read"
    /\ last.raised = "none"
    /\ files[last.arg] = ExportedStl(SolidGiven("tetra"))
    /\ ClosedSolid(SolidGiven("tetra"))
    /\ Len(last.returned) = 1
    /\ last.returned[1].kind = "Solid"
    /\ Volume6(ReturnedFacets(last.returned[1]), 4) > 0
    /\ Volume6(OriginalFacets(SolidGiven("tetra")), 4) > 0

\* ------------------------------------------------------------------------
\* Claims about _mesh_shape, checked under SpecTess

\* _mesh_shape returned
Tessellated == last.op = "_mesh_shape" /\ mesh_pc = "call" /\ last.raised = "none"

\* the nodes of the faces before face k
RECURSIVE NodesBefore(_, _)
NodesBefore(faces, k) ==
    IF k = 1 THEN 0 ELSE NodesBefore(faces, k - 1) + Len(faces[k - 1].nodes)

\* the triangles emitted for the faces before face k: those of the faces
\* that were not passed over
RECURSIVE TrisBefore(_, _)
TrisBefore(faces, k) ==
    IF k = 1 THEN 0
    ELSE TrisBefore(faces, k - 1)
         + IF faces[k - 1].wrapped THEN Len(faces[k - 1].tris) ELSE 0

\* triangle t of those emitted for face k
EmittedFor(faces, k, t) == triangles[TrisBefore(faces, k) + t]

C24_OrientationRule ==
    Tessellated =>
        LET faces == last.arg
        IN  \A k \in 1..Len(faces) :
                faces[k].wrapped =>
                    \A t \in 1..Len(faces[k].tris) :
                        LET tri == faces[k].tris[t]
                            emitted == EmittedFor(faces, k, t)
                            shift == emitted[1] - tri[1]
                        IN  IF faces[k].reversed
                            THEN emitted = <<tri[1] + shift, tri[3] + shift,
                                             tri[2] + shift>>
                            ELSE emitted = <<tri[1] + shift, tri[2] + shift,
                                             tri[3] + shift>>

\* a quadrilateral face that is not reversed followed by a reversed one:
\* four triangles, the last two with their second and third corner swapped
C24_Witness ==
    /\ Tessellated
    /\ Len(last.arg) = 2
    /\ Len(last.arg[1].tris) = 2 /\ ~last.arg[1].reversed
    /\ Len(last.arg[2].tris) = 2 /\ last.arg[2].reversed
    /\ triangles = <<<<0, 1, 2>>, <<0, 2, 3>>, <<4, 6, 5>>, <<4, 7, 6>>>>

\* ------------------------------------------------------------------------
\* Claims about the order of the steps of add_shape, checked under SpecLeaves

\* the stages of one leaf in the order claimed: tessellate, weld, filter,
\* set geometry, set role, label, part number and identifier, bind colour,
\* validate, append to meshes and add the build item
StageOrder ==
    <<"_mesh_shape", "weld", "filter", "SetGeometry", "SetType", "SetName",
      "SetPartNumber", "SetUUID", "_add_color", "IsValid", "append",
      "AddBuildItem">>

\* the place of a statement among the stages (0: it is none of them)
Rank(name) ==
    IF \E i \in 1..Len(StageOrder) : StageOrder[i] = name
    THEN CHOOSE i \in 1..Len(StageOrder) : StageOrder[i] = name
    ELSE 0

\* the stages every appended leaf goes through
EveryStage ==
    {"_mesh_shape", "weld", "filter", "SetGeometry", "SetType", "_add_color",
     "IsValid", "append", "AddBuildItem"}

\* C25: the stages of a leaf run in the order of StageOrder, so welding
\* comes after the tessellation of that leaf; an appended leaf went through
\* every stage; and the leaves run one after the other in their order, the
\* next one only after the one before was appended or skipped (a raise ends
\* the call)
C25_StageOrdering ==
    last.op = "add_shape" =>
        LET trace == last.stages
        IN  /\ \A i, j \in 1..Len(trace) :
                  (i < j /\ trace[i][2] = trace[j][2]
                   /\ Rank(trace[i][1]) > 0 /\ Rank(trace[j][1]) > 0)
                  => Rank(trace[i][1]) < Rank(trace[j][1])
            /\ Len(trace) > 0 => trace[1][2] = 1
            /\ \A i \in 1..(Len(trace) - 1) :
                  \/ trace[i + 1][2] = trace[i][2]
                  \/ /\ trace[i + 1][2] = trace[i][2] + 1
                     /\ trace[i][1] \in {"AddComponent", "skip"}
            /\ \A i \in 1..Len(trace) :
                  trace[i][1] = "raise" => i = Len(trace)
            /\ \A k \in 1..Len(last.outcomes) :
                  last.outcomes[k].result = "appended" =>
                      \A name \in EveryStage :
                          \E i \in 1..Len(trace) : trace[i] = <<name, k>>

\* a call with a leaf that was skipped, then one that was appended
C25_Witness ==
    /\ last.op = "add_shape"
    /\ Len(last.outcomes) = 2
    /\ last.outcomes[1].result = "skipped"
    /\ last.outcomes[2].result = "appended"
    /\ \E i, j \in 1..Len(last.stages) :
          /\ i < j
          /\ last.stages[i] = <<"skip", 1>>
          /\ last.stages[j] = <<"weld", 2>>

\* ------------------------------------------------------------------------
\* Claims about _get_shape, checked under SpecShape

\* point p counted in 10^-digits (the points of ForeignVertices lie below
\* 128 length units)
Cells(p) == [axis \in 1..3 |-> p[axis][2]]

\* a, b, c lie on one line or coincide: a multiple of b - a is a multiple
\* of c - a
OnOneLine(a, b, c) ==
    \E m, n \in -2..2 :
        /\ m /= 0 \/ n /= 0
        /\ \A axis \in 1..3 :
              m * (Cells(b)[axis] - Cells(a)[axis])
                  = n * (Cells(c)[axis] - Cells(a)[axis])

\* the triangles of the mesh handed to _get_shape whose face has area
WithArea ==
    {t \in 1..Len(last.arg.triangles) :
        LET corners == Corners(last.arg.vertices, last.arg.triangles[t])
        IN  ~OnOneLine(corners[1], corners[2], corners[3])}

\* C26: the faces sewn by _get_shape are the triangles whose face has an
\* area other than zero, in their order; a triangle without area is never
\* sewn, whatever wrote the mesh
C26_ZeroAreaDiscard ==
    (last.op = "_get_shape" /\ calls = 1) =>
        LET facets == last.returned[1].facets
        IN  /\ Len(facets) = Cardinality(WithArea)
            /\ \A t \in WithArea :
                  facets[Cardinality({u \in WithArea : u <= t})]
                      = Corners(last.arg.vertices, last.arg.triangles[t])
            /\ \A f \in 1..Len(facets) :
                  ~OnOneLine(facets[f][1], facets[f][2], facets[f][3])

\* a mesh of a triangle on one line and one with area: one face is sewn
C26_Witness ==
    /\ last.op = "_get_shape"
    /\ calls = 1
    /\ last.arg.triangles = <<<<0, 1, 2>>, <<0, 1, 3>>>>
    /\ Len(last.returned[1].facets) = 1
    /\ last.returned[1].kind = "Shell"

\* ------------------------------------------------------------------------
\* Claims about the counts, checked under SpecExport and SpecIO

\* C27: after any add_shape calls mesh_count is the length of
\* triangle_counts, of vertex_counts and of get_mesh_properties(): the
\* container holds one mesh object per entry of meshes
C27_CountAgreement ==
    /\ mesh_count(model) = Len(triangle_counts(meshes, heap))
    /\ mesh_count(model) = Len(vertex_counts(meshes, heap))
    /\ mesh_count(model) = Len(get_mesh_properties(meshes, heap))
    /\ mesh_count(model) = Len(meshes)

\* C28: after any add_shape and read calls no mesh object occurs twice in
\* meshes, and meshes lists the mesh objects of the container, so that
\* triangle_counts, vertex_counts and get_mesh_properties() have one element
\* per mesh object of the container
C28_NoDuplicateEntries ==
    /\ \A i, j \in 1..Len(meshes) : meshes[i] = meshes[j] => i = j
    /\ {meshes[i] : i \in 1..Len(meshes)}
           = {model.mesh_objects[k] : k \in 1..Len(model.mesh_objects)}
    /\ Len(triangle_counts(meshes, heap)) = mesh_count(model)
    /\ Len(vertex_counts(meshes, heap)) = mesh_count(model)
    /\ Len(get_mesh_properties(meshes, heap)) = mesh_count(model)

\* ------------------------------------------------------------------------
\* Claims about a failing add_shape, checked under SpecLeaves

\* the handles of the leaves that the call appended
RECURSIVE AppendedOf(_, _)
AppendedOf(outcomes, k) ==
    IF k > Len(outcomes) THEN <<>>
    ELSE (IF outcomes[k].result = "appended" THEN <<outcomes[k].mesh>>
          ELSE <<>>) \o AppendedOf(outcomes, k + 1)

\* C29: when add_shape raises RuntimeError on leaf k, the entries and build
\* items of the leaves before k stay in the container, leaf k has no entry
\* in meshes and no build item, the leaves after k are not processed (no
\* mesh object, no stage), and every build item is of a mesh object that is
\* in meshes
C29_PartialEffect ==
    [][(AddShapeStep /\ last'.raised = "RuntimeError") =>
          LET outcomes == last'.outcomes
              k == Len(outcomes)
              before == AppendedOf(SubSeq(outcomes, 1, k - 1), 1)
          IN  /\ k >= 1 /\ k <= Len(last'.arg.shapes)
              /\ outcomes[k].result = "raised"
              /\ \A j \in 1..(k - 1) : outcomes[j].result /= "raised"
              /\ meshes' = meshes \o before
              /\ model'.build_items = model.build_items \o before
              /\ \A i \in 1..Len(meshes') : meshes'[i] /= outcomes[k].mesh
              /\ \A i \in 1..Len(model'.build_items) :
                    /\ model'.build_items[i] /= outcomes[k].mesh
                    /\ \E m \in 1..Len(meshes') :
                          meshes'[m] = model'.build_items[i]
              /\ Len(heap') = Len(heap) + k
              /\ \A i \in 1..Len(last'.stages) : last'.stages[i][2] <= k]_vars

\* a call of two leaves appended the first and raised on the second
C29_Witness ==
    /\ last.op = "add_shape"
    /\ last.raised = "RuntimeError"
    /\ Len(last.arg.shapes) = 2
    /\ Len(last.outcomes) = 2
    /\ last.outcomes[1].result = "appended"
    /\ last.outcomes[2].result = "raised"
    /\ \E i \in 1..Len(meshes) : meshes[i] = last.outcomes[1].mesh

\* ------------------------------------------------------------------------
\* Claims about the unit, checked under SpecUnit

\* the step is a call of add_shape, write or add_meta_data
KeepsUnitStep ==
    /\ calls' = calls + 1
    /\ last'.op \in {"add_shape", "write", "add_meta_data"}

====
